---- MODULE Spec2Model ----
(***************************************************************************)
(* A state-machine model of docs/game.js, the browser Snake game.          *)
(*                                                                         *)
(* The state is the script's module-level variables (snake, direction,     *)
(* pendingDirection, food, running, score, intervalId) together with the   *)
(* two pieces of host state the script drives: the set of interval timers  *)
(* that are active (setInterval / clearInterval) and the number of         *)
(* animation-frame callbacks that are pending (requestAnimationFrame).     *)
(* The host's event loop runs one callback at a time to completion, so     *)
(* each callback (click on start, keydown, timer tick, animation frame)    *)
(* is one atomic action.                                                   *)
(***************************************************************************)
EXTENDS Integers, Sequences, FiniteSets

(* ----------------------------------------------------------------------- *)
(* Board size.  game.js fixes 40 x 30; the model keeps the code's          *)
(* arithmetic and runs it on a small board so that every board state,      *)
(* the completely covered board included, is explored.                     *)
(* ----------------------------------------------------------------------- *)
BOARD_WIDTH == 4

BOARD_HEIGHT == 2

\* Most interval timers / pending animation frames the host is followed to.
MaxTimers == 2

MaxFrames == 2

\* JavaScript null (pendingDirection, food, intervalId before the first start).
Null == <<>>

Grid == (0 .. BOARD_WIDTH - 1) \X (0 .. BOARD_HEIGHT - 1)

Directions == {<<0, -1>>, <<0, 1>>, <<-1, 0>>, <<1, 0>>}

\* The values of e.key the model presses: the four arrow keys, the four
\* letters (two as typed with shift or caps lock), and two keys the map does
\* not hold.
Keys ==
  {"ArrowUp", "ArrowDown", "ArrowLeft", "ArrowRight",
   "w", "a", "S", "D", "x", "Enter"}

VARIABLES snake, direction, pendingDirection, food, running, score,
          intervalId, timers, frames, hung, last, lastKey, lastTurn, applied

vars == <<snake, direction, pendingDirection, food, running, score,
          intervalId, timers, frames, hung, last, lastKey, lastTurn, applied>>

\* snake .. intervalId are the script's variables.  timers is the set of
\* active interval timers and frames the number of pending animation-frame
\* callbacks.  hung holds once a callback has entered a loop it never leaves
\* (the event loop then runs nothing else).  The rest is history: last is
\* the kind of the last callback; lastKey is the direction of the most
\* recent mapped key pressed in the current window of key presses, and
\* lastTurn that of the most recent one that did not reverse the active
\* direction; a window opens with the first key press after a start or a
\* running tick, and applied holds from the tick that closes a window until
\* the next window opens.

(* ----------------------------------------------------------------------- *)
(* Pure helpers                                                            *)
(* ----------------------------------------------------------------------- *)

\* JavaScript's % : the remainder takes the sign of the dividend.
JsRem(a, b) == IF a >= 0 THEN a % b ELSE -((-a) % b)

\* Math.floor(n / 2) for n >= 0.
FloorHalf(n) == n \div 2

\* A variant of Wrap that forgets to add the bound before the remainder.
WrapNoBound(coord, delta, bound) == JsRem(coord + delta, bound)

\* (head[i] + direction[i] + BOUND) % BOUND
Wrap(coord, delta, bound) == JsRem(coord + delta + bound, bound)

\* const newHead = [newX, newY]
NewHead(s, dir) ==
  <<Wrap(s[1][1], dir[1], BOARD_WIDTH), Wrap(s[1][2], dir[2], BOARD_HEIGHT)>>

Cells(s) == {s[i] : i \in 1 .. Len(s)}

\* A variant of the collision loop that leaves the last segment out.
CollidesIgnoringTail(s, c) == \E i \in 1 .. Len(s) - 1 : s[i] = c

\* A variant of the collision loop that compares both coordinates of a
\* segment with newX.
CollidesBothWithX(s, c) == \E i \in 1 .. Len(s) : s[i][1] = c[1] /\ s[i][2] = c[1]

\* for (let i = 0; i < snake.length; i++) if (seg[0] === newX && seg[1] === newY)
Collides(s, c) == \E i \in 1 .. Len(s) : s[i] = c

\* A variant of randomEmptyPosition that tests the head segment only.
FreePositionsOffHead(s) == {c \in Grid : s[1] # c}

\* The cells randomEmptyPosition can return: the loop returns the first
\* sampled cell that no segment occupies, so every free cell is possible and
\* no other is.  With no free cell the loop never returns.
FreePositions(s) == {c \in Grid : ~(\E i \in 1 .. Len(s) : s[i] = c)}

\* e.key.toLowerCase()
ToLowerCase(k) ==
  CASE k = "ArrowUp" -> "arrowup"
    [] k = "ArrowDown" -> "arrowdown"
    [] k = "ArrowLeft" -> "arrowleft"
    [] k = "ArrowRight" -> "arrowright"
    [] k = "W" -> "w"
    [] k = "A" -> "a"
    [] k = "S" -> "s"
    [] k = "D" -> "d"
    [] k = "Enter" -> "enter"
    [] OTHER -> k

\* map[key]; Null stands for undefined (the key is not in the map).
KeyMap(key) ==
  CASE key \in {"arrowup", "w"} -> <<0, -1>>
    [] key \in {"arrowdown", "s"} -> <<0, 1>>
    [] key \in {"arrowleft", "a"} -> <<-1, 0>>
    [] key \in {"arrowright", "d"} -> <<1, 0>>
    [] OTHER -> Null

\* A variant of the reversal test that compares with the queued direction.
IsReverseOfPending(newDir, dir) ==
  /\ pendingDirection # Null
  /\ newDir[1] = -pendingDirection[1]
  /\ newDir[2] = -pendingDirection[2]

\* !(newDir[0] !== -direction[0] || newDir[1] !== -direction[1])
IsReverse(newDir, dir) == newDir[1] = -dir[1] /\ newDir[2] = -dir[2]

\* A variant of FoodAt that crosses the two coordinates.
FoodAtCrossed(c) == food # Null /\ c[1] = food[2] /\ c[2] = food[1]

\* A variant of FoodAt that compares the column only.
FoodAtColumn(c) == food # Null /\ c[1] = food[1]

\* food && newX === food[0] && newY === food[1]
FoodAt(c) == food # Null /\ c[1] = food[1] /\ c[2] = food[2]

\* A variant of Unshift that adds the new head at the end (push).
UnshiftAtEnd(s, c) == s \o <<c>>

\* snake.unshift(newHead)
Unshift(s, c) == <<c>> \o s

\* A variant of the plain move that forgets to remove the tail.
PopForgotten(s) == s

\* snake.pop()
Pop(s) == SubSeq(s, 1, Len(s) - 1)

\* A variant of tick without its first line.
NeverReturnsEarly == FALSE

\* if (!running) return;
TickReturnsEarly == ~running

\* A variant of the initial snake laid out to the right of the centre.
InitialSnakeRightward ==
  LET startX == FloorHalf(BOARD_WIDTH)
      startY == FloorHalf(BOARD_HEIGHT)
  IN  <<<<startX, startY>>, <<startX + 1, startY>>, <<startX + 2, startY>>>>

\* The snake startGame builds.
InitialSnake ==
  LET startX == FloorHalf(BOARD_WIDTH)
      startY == FloorHalf(BOARD_HEIGHT)
  IN  <<<<startX, startY>>, <<startX - 1, startY>>, <<startX - 2, startY>>>>

\* The handle setInterval returns: one that names no active timer.
FreshTimer == CHOOSE t \in 1 .. MaxTimers + 1 : t \notin timers

(* ----------------------------------------------------------------------- *)
(* Initial state: the script has been loaded, nothing has been started.    *)
(* ----------------------------------------------------------------------- *)
Init ==
  /\ snake = <<>>
  /\ direction = <<1, 0>>
  /\ pendingDirection = Null
  /\ food = Null
  /\ running = FALSE
  /\ score = 0
  /\ intervalId = Null
  /\ timers = {}
  /\ frames = 0
  /\ hung = FALSE
  /\ last = "load"
  /\ lastKey = Null
  /\ lastTurn = Null
  /\ applied = FALSE

(* ----------------------------------------------------------------------- *)
(* Click on the start button: startGame().                                 *)
(* ----------------------------------------------------------------------- *)
StartGame ==
  /\ ~hung
  /\ Cardinality(timers) < MaxTimers
  /\ frames < MaxFrames
  /\ snake' = InitialSnake
  /\ direction' = <<1, 0>>
  /\ pendingDirection' = Null
  /\ score' = Len(InitialSnake)
  /\ running' = TRUE
  /\ intervalId' = FreshTimer
  /\ timers' = timers \cup {FreshTimer}
  /\ frames' = frames + 1
  /\ last' = "start"
  /\ lastKey' = Null
  /\ lastTurn' = Null
  /\ applied' = FALSE
  /\ IF FreePositions(InitialSnake) # {}
       THEN food' \in FreePositions(InitialSnake) /\ hung' = FALSE
       ELSE food' = food /\ hung' = TRUE

(* ----------------------------------------------------------------------- *)
(* keydown: handleKeyDown(e).                                              *)
(* ----------------------------------------------------------------------- *)
\* A variant of the handler that turns the snake at once instead of queueing.
HandleKeyDownDirect(k) ==
  LET newDir == KeyMap(ToLowerCase(k)) IN
  /\ ~hung
  /\ direction' =
       IF newDir # Null /\ ~IsReverse(newDir, direction)
         THEN newDir ELSE direction
  /\ lastKey' = IF newDir # Null THEN newDir ELSE lastKey
  /\ lastTurn' =
       IF newDir = Null THEN lastTurn
       ELSE IF newDir # <<-direction[1], -direction[2]>> THEN newDir
       ELSE IF applied THEN Null ELSE lastTurn
  /\ applied' = IF newDir # Null THEN FALSE ELSE applied
  /\ last' = "key"
  /\ UNCHANGED <<snake, pendingDirection, food, running, score, intervalId,
                 timers, frames, hung>>

HandleKeyDown(k) ==
  LET newDir == KeyMap(ToLowerCase(k)) IN
  /\ ~hung
  /\ pendingDirection' =
       IF newDir # Null /\ ~IsReverse(newDir, direction)
         THEN newDir ELSE pendingDirection
  /\ lastKey' = IF newDir # Null THEN newDir ELSE lastKey
  /\ lastTurn' =
       IF newDir = Null THEN lastTurn
       ELSE IF newDir # <<-direction[1], -direction[2]>> THEN newDir
       ELSE IF applied THEN Null ELSE lastTurn
  /\ applied' = IF newDir # Null THEN FALSE ELSE applied
  /\ last' = "key"
  /\ UNCHANGED <<snake, direction, food, running, score, intervalId,
                 timers, frames, hung>>

(* ----------------------------------------------------------------------- *)
(* An interval timer fires: tick().                                        *)
(* ----------------------------------------------------------------------- *)
\* History only: a running tick closes the window of key presses.  The keys
\* of the window stay on record until the next tick or key press.
CloseKeyWindow ==
  IF ~applied /\ lastKey # Null
    THEN applied' = TRUE /\ UNCHANGED <<lastKey, lastTurn>>
    ELSE applied' = FALSE /\ lastKey' = Null /\ lastTurn' = Null

\* if (!running) return;
TickIdle ==
  /\ TickReturnsEarly
  /\ last' = "idle"
  /\ UNCHANGED <<snake, direction, pendingDirection, food, running, score,
                 intervalId, timers, frames, hung, lastKey, lastTurn, applied>>

\* A variant of tick that does not take the queued direction over.
TickDirectionNotTaken == direction

\* The direction the tick moves in: the queued one if there is one.
TickDirection == IF pendingDirection # Null THEN pendingDirection ELSE direction

\* The self-collision branch: endGame() and return.
TickCollide ==
  /\ ~TickReturnsEarly
  /\ Collides(snake, NewHead(snake, TickDirection))
  /\ direction' = TickDirection
  /\ pendingDirection' = Null
  /\ running' = FALSE
  /\ timers' = timers \ {intervalId}
  /\ last' = "collide"
  /\ CloseKeyWindow
  /\ UNCHANGED <<snake, food, score, intervalId, frames, hung>>

\* The feeding branch: unshift, score++, new food.
TickEat ==
  LET newHead == NewHead(snake, TickDirection)
      grown == Unshift(snake, newHead)
  IN  /\ ~TickReturnsEarly
      /\ ~Collides(snake, newHead)
      /\ FoodAt(newHead)
      /\ direction' = TickDirection
      /\ pendingDirection' = Null
      /\ snake' = grown
      /\ score' = score + 1
      /\ last' = "eat"
      /\ CloseKeyWindow
      /\ IF FreePositions(grown) # {}
           THEN food' \in FreePositions(grown) /\ hung' = FALSE
           ELSE food' = food /\ hung' = TRUE
      /\ UNCHANGED <<running, intervalId, timers, frames>>

\* The plain move: unshift, pop.
TickMove ==
  LET newHead == NewHead(snake, TickDirection)
      grown == Unshift(snake, newHead)
  IN  /\ ~TickReturnsEarly
      /\ ~Collides(snake, newHead)
      /\ ~FoodAt(newHead)
      /\ direction' = TickDirection
      /\ pendingDirection' = Null
      /\ snake' = Pop(grown)
      /\ last' = "move"
      /\ CloseKeyWindow
      /\ UNCHANGED <<food, running, score, intervalId, timers, frames, hung>>

Tick ==
  /\ ~hung
  /\ timers # {}
  /\ (TickIdle \/ TickCollide \/ TickEat \/ TickMove)

(* ----------------------------------------------------------------------- *)
(* An animation frame: draw().                                             *)
(* ----------------------------------------------------------------------- *)
\* A variant of draw that reverses the snake in place to paint the tail first.
DrawReversing ==
  /\ ~hung
  /\ frames > 0
  /\ frames' = IF running THEN frames ELSE frames - 1
  /\ snake' = [i \in 1 .. Len(snake) |-> snake[Len(snake) + 1 - i]]
  /\ last' = "draw"
  /\ UNCHANGED <<direction, pendingDirection, food, running, score,
                 intervalId, timers, hung, lastKey, lastTurn, applied>>

Draw ==
  /\ ~hung
  /\ frames > 0
  /\ frames' = IF running THEN frames ELSE frames - 1
  /\ last' = "draw"
  /\ UNCHANGED <<snake, direction, pendingDirection, food, running, score,
                 intervalId, timers, hung, lastKey, lastTurn, applied>>

Next ==
  \/ StartGame
  \/ \E k \in Keys : HandleKeyDown(k)
  \/ Tick
  \/ Draw

Spec == Init /\ [][Next]_vars

(* ----------------------------------------------------------------------- *)
(* Vocabulary of the properties.  These are stated from the observable     *)
(* state alone and do not use the operators the actions are built from.    *)
(* ----------------------------------------------------------------------- *)
\* The step just taken was a timer callback.
TickKinds == {"idle", "collide", "eat", "move"}

\* The cell one step from the head of s in direction d on the torus, written
\* with the mathematical modulus.
AheadOf(s, d) ==
  <<(s[1][1] + d[1] + BOARD_WIDTH) % BOARD_WIDTH,
    (s[1][2] + d[2] + BOARD_HEIGHT) % BOARD_HEIGHT>>

\* s without its last element.
Front(s) == [i \in 1 .. Len(s) - 1 |-> s[i]]

\* The step is a tick that began while the session was running; direction'
\* is then the direction the tick moved in.
RunningTick == running /\ last' \in TickKinds

(* ----------------------------------------------------------------------- *)
(* C1: every tick executed while running whose new head equals a cell of   *)
(* the current snake (the tail included) ends the session: running becomes *)
(* false, the session's interval timer is no longer active, and snake,     *)
(* food and score are what they were before the tick.                      *)
(* ----------------------------------------------------------------------- *)
C1_CollisionEndsSession ==
  [][(RunningTick /\ AheadOf(snake, direction') \in Cells(snake))
       => /\ ~running'
          /\ intervalId \notin timers'
          /\ snake' = snake
          /\ food' = food
          /\ score' = score]_vars

\* A session that ended because the head ran into the snake's own tail cell.
C1_Witness ==
  /\ last = "collide"
  /\ ~running
  /\ Len(snake) >= 4
  /\ AheadOf(snake, direction) = snake[Len(snake)]

(* ----------------------------------------------------------------------- *)
(* C2: every tick executed while running whose new head is neither on the  *)
(* snake nor on the food leaves the snake as the new head followed by the  *)
(* old snake without its last cell, and leaves food and score unchanged.   *)
(* ----------------------------------------------------------------------- *)
C2_PlainMoveShifts ==
  [][(/\ RunningTick
      /\ AheadOf(snake, direction') \notin Cells(snake)
      /\ AheadOf(snake, direction') # food)
       => /\ snake' = <<AheadOf(snake, direction')>> \o Front(snake)
          /\ Len(snake') = Len(snake)
          /\ food' = food
          /\ score' = score]_vars

\* A plain move has just been made by a snake that has grown, with the food
\* in the column the head moved into.
C2_Witness ==
  /\ last = "move"
  /\ running
  /\ Len(snake) > 3
  /\ food # snake[1]
  /\ food[1] = snake[1][1]

(* ----------------------------------------------------------------------- *)
(* C3: every tick executed while running whose new head is on the food     *)
(* (and not on the snake) leaves the snake as the new head followed by the *)
(* whole old snake, and the score one higher.                              *)
(* ----------------------------------------------------------------------- *)
C3_FeedingGrows ==
  [][(/\ RunningTick
      /\ AheadOf(snake, direction') \notin Cells(snake)
      /\ AheadOf(snake, direction') = food)
       => /\ snake' = <<AheadOf(snake, direction')>> \o snake
          /\ Len(snake') = Len(snake) + 1
          /\ score' = score + 1]_vars

\* Food has just been eaten and the tick has returned.
C3_Witness ==
  /\ last = "eat"
  /\ ~hung
  /\ Len(snake) = 4
  /\ score = 4

(* ----------------------------------------------------------------------- *)
(* C4: every food placement, at game start and after every feeding tick,   *)
(* the covered board included, terminates and yields a food cell that is   *)
(* not a cell of the snake as it is at that moment.                        *)
(* ----------------------------------------------------------------------- *)
C4_PlacementTerminates ==
  /\ ~hung
  /\ last \in {"start", "eat"} => (food \in Grid /\ food \notin Cells(snake))

(* ----------------------------------------------------------------------- *)
(* C5: a mapped key whose direction is the exact negation of the active    *)
(* direction leaves pendingDirection as it was, unset or set.              *)
(* ----------------------------------------------------------------------- *)
C5_ReversalIgnored ==
  [][(/\ last' = "key"
      /\ ~applied'
      /\ lastKey' = <<-direction[1], -direction[2]>>)
       => pendingDirection' = pendingDirection]_vars

\* The reversing key has just been pressed while another direction was queued.
C5_Witness ==
  /\ last = "key"
  /\ running
  /\ ~applied
  /\ lastKey = <<-direction[1], -direction[2]>>
  /\ pendingDirection \in Directions

(* ----------------------------------------------------------------------- *)
(* C6: a key press changes nothing but pendingDirection: snake, food,      *)
(* score, active direction, running flag, timers and pending frames are    *)
(* untouched, in every session state; a key the map does not hold changes  *)
(* nothing at all.                                                         *)
(* ----------------------------------------------------------------------- *)
MappedKeys ==
  {"ArrowUp", "ArrowDown", "ArrowLeft", "ArrowRight",
   "w", "a", "s", "d", "W", "A", "S", "D"}

C6_KeyWritesOnlyPending ==
  [][/\ last' = "key"
          => UNCHANGED <<snake, food, score, direction, running, intervalId,
                         timers, frames, hung>>
     /\ \A k \in Keys \ MappedKeys :
          HandleKeyDown(k)
            => UNCHANGED <<snake, food, score, direction, running, intervalId,
                           timers, frames, hung, pendingDirection>>]_vars

\* A key has just been accepted after the session ended.
C6_Witness ==
  /\ last = "key"
  /\ ~running
  /\ Len(snake) >= 3
  /\ pendingDirection \in Directions

(* ----------------------------------------------------------------------- *)
(* C7 as stated: of the mapped keys pressed between two ticks the most     *)
(* recent one is the direction the snake moves in at the next tick.        *)
(* ----------------------------------------------------------------------- *)
C7_LastKeyTakesEffect ==
  [][(RunningTick /\ ~applied /\ lastKey # Null) => direction' = lastKey]_vars

(* ----------------------------------------------------------------------- *)
(* C7 as amended: of the mapped keys pressed since the last start or       *)
(* running tick, those that exactly reverse the active direction are       *)
(* ignored; the next running tick moves in the direction of the most       *)
(* recent of the others, and in the active direction if there is none.     *)
(* ----------------------------------------------------------------------- *)
C7_LastTurnTakesEffect ==
  [][RunningTick
       => direction' =
            IF ~applied /\ lastTurn # Null THEN lastTurn ELSE direction]_vars

\* A tick has moved the snake in the direction of an earlier key although the
\* most recent key press before it was another, reversing, one.
C7_Witness ==
  /\ last \in {"move", "eat"}
  /\ applied
  /\ lastTurn \in Directions
  /\ lastKey # lastTurn
  /\ direction = lastTurn

(* ----------------------------------------------------------------------- *)
(* C8: the head a tick adds is one step from the old head with wraparound: *)
(* right of x = WIDTH-1 is 0, left of 0 is WIDTH-1, below y = HEIGHT-1 is  *)
(* 0, above 0 is HEIGHT-1, i.e. ((x + dx + WIDTH) mod WIDTH,               *)
(* (y + dy + HEIGHT) mod HEIGHT); every snake cell is on the board in      *)
(* every reachable state.                                                  *)
(* ----------------------------------------------------------------------- *)
StepOnRing(c, d, bound) ==
  CASE d = 1 -> IF c = bound - 1 THEN 0 ELSE c + 1
    [] d = -1 -> IF c = 0 THEN bound - 1 ELSE c - 1
    [] OTHER -> c

C8_HeadWraps ==
  /\ [](\A i \in 1 .. Len(snake) : snake[i] \in Grid)
  /\ [][(RunningTick /\ last' \in {"move", "eat"})
          => /\ snake'[1] = <<StepOnRing(snake[1][1], direction'[1], BOARD_WIDTH),
                              StepOnRing(snake[1][2], direction'[2], BOARD_HEIGHT)>>
             /\ snake'[1] = AheadOf(snake, direction')]_vars

\* The head has just crossed the left edge of the board.
C8_Witness ==
  /\ last \in {"move", "eat"}
  /\ direction = <<-1, 0>>
  /\ snake[1][1] = BOARD_WIDTH - 1
  /\ snake[2][1] = 0

(* ----------------------------------------------------------------------- *)
(* C9: every start action, whatever state it finds, leaves the three-cell  *)
(* snake (W/2,H/2), (W/2-1,H/2), (W/2-2,H/2), direction (1,0), no queued   *)
(* direction, score 3, food on a board cell off the snake, running true.   *)
(* ----------------------------------------------------------------------- *)
C9_StartIsFresh ==
  last = "start"
    => /\ snake = <<<<BOARD_WIDTH \div 2, BOARD_HEIGHT \div 2>>,
                    <<(BOARD_WIDTH \div 2) - 1, BOARD_HEIGHT \div 2>>,
                    <<(BOARD_WIDTH \div 2) - 2, BOARD_HEIGHT \div 2>>>>
       /\ direction = <<1, 0>>
       /\ pendingDirection = Null
       /\ score = 3
       /\ food \in Grid
       /\ \A i \in 1 .. Len(snake) : snake[i] \in Grid /\ snake[i] # food
       /\ running
       /\ ~hung

\* A start action taken while a timer of an earlier start was still active.
C9_Witness == last = "start" /\ Cardinality(timers) = 2

(* ----------------------------------------------------------------------- *)
(* C10: running becomes false only in a tick whose new head is on the      *)
(* snake, and a tick invoked while not running changes nothing: snake,     *)
(* food, score, both directions and the running flag stay as they are.     *)
(* ----------------------------------------------------------------------- *)
C10_EndsOnlyByCollision ==
  [][/\ (running /\ ~running')
          => /\ last' = "collide"
             /\ AheadOf(snake, direction') \in Cells(snake)
     /\ (~running /\ last' \in TickKinds)
          => UNCHANGED <<snake, food, score, direction, pendingDirection,
                         running>>]_vars

\* A timer has fired after the session ended.
C10_Witness == last = "idle" /\ ~running /\ Len(snake) >= 3

(* ----------------------------------------------------------------------- *)
(* C11: while the session is running the snake's cells are pairwise        *)
(* distinct and the snake is at least as long as it was at the start,      *)
(* three cells.                                                            *)
(* ----------------------------------------------------------------------- *)
C11_SnakeDistinct ==
  running
    => /\ Len(snake) >= 3
       /\ \A i, j \in 1 .. Len(snake) : i # j => snake[i] # snake[j]

\* A running snake that has grown and has left its starting row.
C11_Witness ==
  /\ running
  /\ last = "move"
  /\ Len(snake) >= 5
  /\ snake[1][2] # snake[Len(snake)][2]

(* ----------------------------------------------------------------------- *)
(* C12: under any interleaving of key presses, ticks and starts, the       *)
(* queued direction is never the exact negation of the active direction,   *)
(* so the direction a running tick applies is never the reverse of the     *)
(* direction that was active before it.                                    *)
(* ----------------------------------------------------------------------- *)
C12_NeverReverses ==
  /\ [](pendingDirection # <<-direction[1], -direction[2]>>)
  /\ [][RunningTick => direction' # <<-direction[1], -direction[2]>>]_vars

\* The reversing key has just been pressed in a running session with nothing
\* queued, and nothing is queued now.
C12_Witness ==
  /\ last = "key"
  /\ running
  /\ ~applied
  /\ lastKey = <<-direction[1], -direction[2]>>
  /\ pendingDirection = Null
  /\ Len(snake) > 3

(* ----------------------------------------------------------------------- *)
(* C13: every tick executed while running makes a queued direction the     *)
(* active one and clears it before the collision check: after the tick,    *)
(* the one that ends the session included, nothing is queued, and if       *)
(* nothing was queued before it the active direction is unchanged.         *)
(* ----------------------------------------------------------------------- *)
C13_PendingConsumed ==
  [][RunningTick
       => /\ pendingDirection' = Null
          /\ pendingDirection # Null => direction' = pendingDirection
          /\ pendingDirection = Null => direction' = direction]_vars

\* A tick has ended the session in the direction that was queued before it.
C13_Witness ==
  /\ last = "collide"
  /\ ~running
  /\ applied
  /\ lastTurn \in Directions
  /\ direction = lastTurn
  /\ direction # <<1, 0>>
  /\ pendingDirection = Null

(* ----------------------------------------------------------------------- *)
(* C14: under any interleaving of starts, ticks, game-over and display     *)
(* refreshes at most one draw callback is pending at any time, and a draw  *)
(* that runs while the session is not running schedules no further draw.   *)
(* ----------------------------------------------------------------------- *)
C14_OneDrawPending ==
  /\ [](frames <= 1)
  /\ [][(last' = "draw" /\ ~running) => frames' = frames - 1]_vars

(* ----------------------------------------------------------------------- *)
(* C15: a render step leaves snake, food, score, both directions and the   *)
(* running flag as they are, so render steps that follow one another see   *)
(* the same state.                                                         *)
(* ----------------------------------------------------------------------- *)
C15_DrawReadsOnly ==
  [][last' = "draw"
       => UNCHANGED <<snake, food, score, direction, pendingDirection,
                      running>>]_vars

\* A frame has just been painted of a running snake that has grown and
\* turned, with a direction queued.
C15_Witness ==
  /\ last = "draw"
  /\ running
  /\ Len(snake) > 3
  /\ snake[1][2] # snake[Len(snake)][2]
  /\ pendingDirection \in Directions

(* ----------------------------------------------------------------------- *)
(* C16: after a start action every two consecutive snake cells differ by   *)
(* exactly one unit step in exactly one coordinate, taken modulo the       *)
(* board's width or height.                                                *)
(* ----------------------------------------------------------------------- *)
OneStepApart(a, b) ==
  LET dx == (a[1] - b[1]) % BOARD_WIDTH
      dy == (a[2] - b[2]) % BOARD_HEIGHT
  IN  \/ dx \in {1, BOARD_WIDTH - 1} /\ dy = 0
      \/ dx = 0 /\ dy \in {1, BOARD_HEIGHT - 1}

C16_ConsecutiveAdjacent ==
  \A i \in 1 .. Len(snake) - 1 : OneStepApart(snake[i], snake[i + 1])

\* A snake that has grown, has turned, and lies across the board's left and
\* right edge.
C16_Witness ==
  /\ running
  /\ Len(snake) >= 5
  /\ \E i \in 1 .. Len(snake) - 1 :
       {snake[i][1], snake[i + 1][1]} = {0, BOARD_WIDTH - 1}
  /\ \E i \in 1 .. Len(snake) - 1 : snake[i][2] # snake[i + 1][2]

(* ----------------------------------------------------------------------- *)
(* C17: under any sequence of start actions (one issued while a session is *)
(* running included), ticks and game-overs, at most one tick timer is      *)
(* active at any time and none is active while the session is not running. *)
(* ----------------------------------------------------------------------- *)
C17_OneTimer ==
  /\ Cardinality(timers) <= 1
  /\ ~running => timers = {}

(* ----------------------------------------------------------------------- *)
(* C18: in every state after the first start action the score equals the   *)
(* snake's length, three plus the food eaten in the session.               *)
(* ----------------------------------------------------------------------- *)
C18_ScoreIsLength == snake # <<>> => score = Len(snake)

\* Food has been eaten twice or more, the last time in the tick just made.
C18_Witness == last = "eat" /\ ~hung /\ score >= 5 /\ Len(snake) = score

(* ----------------------------------------------------------------------- *)
(* C19: in every state between callbacks of a running session the food is  *)
(* one cell of the board and is not a cell of the snake.                   *)
(* ----------------------------------------------------------------------- *)
C19_FoodOffSnake ==
  (running /\ ~hung)
    => /\ food \in Grid
       /\ \A i \in 1 .. Len(snake) : snake[i] # food

\* A running snake that has just moved with two cells of the board left
\* free, the food on one of them.
C19_Witness ==
  /\ running
  /\ ~hung
  /\ last = "move"
  /\ Len(snake) = BOARD_WIDTH * BOARD_HEIGHT - 2
  /\ food \in Grid

====
